---- MODULE Spec2Model ----
(***************************************************************************)
(* A model of the netlify-ts "hello" function and of its OpenTelemetry     *)
(* wiring (http-hello/netlify-ts).  The repository holds several revisions *)
(* of the handler and of the otel module; the revision deployed in a       *)
(* process is fixed when the process starts (variables rev and otelRev).   *)
(*                                                                         *)
(* JavaScript runs a callback to completion: the variable running names    *)
(* the invocation whose synchronous code is on the stack, and other        *)
(* callbacks (another invocation, a signal handler) start only when it is  *)
(* 0, that is at an await or after a return.                               *)
(***************************************************************************)
EXTENDS Integers, Sequences, FiniteSets, TLC

\* ---------------------------------------------------------------- bounds
MaxInvocations == 2     \* handler invocations served by one process
RandomGrain == 9        \* Math.random() is drawn from {0/g, 1/g, .., (g-1)/g}
FaultStride == 3        \* a process with faults draws every FaultStride-th of them
MaxInitCalls == 1       \* calls of initializeOtel after the module's own
MaxSignals == 2         \* SIGTERM / SIGINT deliveries (or shutdownOtel calls)
QueueCapacity == 3      \* queueCapacity of the pipeline (2048 by default)
BatchMaxSize == 2       \* batchMaxSize of the pipeline (512 by default)
MaxAttempts == 3        \* export attempts per Batch (5 by default)
MaxCalls == 2           \* direct calls of recordRequest

Invocations == 1..MaxInvocations

\* submit calls made on the pipeline: one more than the queue can hold
MaxSubmits == QueueCapacity + 1

\* ------------------------------------------------------------- revisions
HandlerRevs ==
  {"hello_ts", "telemetry", "hello_js", "part_000", "hello_ts_logger"}
OtelRevs == {"otel_ts", "part_001", "part_002", "logger_ts"}

\* ---------------------------------------------------------------- values
Undefined == <<>>
Null == <<"null">>

Truthy(v) == v # Undefined /\ v # Null

Digit(d) ==
  CASE d = 0 -> "0" [] d = 1 -> "1" [] d = 2 -> "2" [] d = 3 -> "3"
    [] d = 4 -> "4" [] d = 5 -> "5" [] d = 6 -> "6" [] d = 7 -> "7"
    [] d = 8 -> "8" [] d = 9 -> "9"

RECURSIVE NumberToString(_)
NumberToString(n) ==
  IF n < 10 THEN Digit(n) ELSE NumberToString(n \div 10) \o Digit(n % 10)

\* `${Math.floor(statusCode / 100)}xx`
StatusClass(statusCode) == NumberToString(statusCode \div 100) \o "xx"

\* Spread of object literals: keys of the later object win.
Spread(earlier, later) == later @@ earlier

\* Mutant of RandomNumber: the "+ 1" is forgotten
RandomNumber_ZeroBased(k) == (k * 9) \div RandomGrain

\* Math.floor(Math.random() * 9) + 1, with Math.random() = k / RandomGrain
RandomNumber(k) == ((k * 9) \div RandomGrain) + 1

\* ------------------------------------------------------------------ span
NoSpan ==
  [started |-> FALSE, traceId |-> Undefined, spanId |-> Undefined,
   status |-> "UNSET", httpStatus |-> 0, errorType |-> "none",
   exceptions |-> 0, events |-> <<>>, coldStart |-> FALSE, ended |-> 0,
   lateOps |-> 0]

\* tracer.startActiveSpan: the n-th span of the process gets fresh ids
NewSpan(n) ==
  [NoSpan EXCEPT !.started = TRUE, !.traceId = <<"trace", n>>,
                 !.spanId = <<"span", n>>]

\* A span ignores every change made after end(); lateOps counts them.
Late(s) == [s EXCEPT !.lateOps = @ + 1]

\* Mutant of SetStatus: a status of OK is final and later calls are ignored
SetStatus_OkIsFinal(s, code) ==
  IF s.ended > 0 THEN Late(s)
  ELSE IF s.status = "OK" THEN s ELSE [s EXCEPT !.status = code]

SetStatus(s, code) ==
  IF s.ended > 0 THEN Late(s) ELSE [s EXCEPT !.status = code]

SetHttpStatus(s, code) ==
  IF s.ended > 0 THEN Late(s) ELSE [s EXCEPT !.httpStatus = code]

SetErrorType(s, t) ==
  IF s.ended > 0 THEN Late(s) ELSE [s EXCEPT !.errorType = t]

AddEvent(s, name) ==
  IF s.ended > 0 THEN Late(s) ELSE [s EXCEPT !.events = Append(@, name)]

\* span.addEvent("function.start",
\*   { .., "function.cold_start": !global.otelInitialized })
FunctionStart(s, initialized) ==
  IF s.ended > 0 THEN Late(s)
  ELSE [s EXCEPT !.events = Append(@, "function.start"),
                 !.coldStart = ~initialized]

RecordException(s) ==
  IF s.ended > 0 THEN Late(s) ELSE [s EXCEPT !.exceptions = @ + 1]

EndSpan(s) == [s EXCEPT !.ended = @ + 1]

\* --------------------------------------------------------------- metrics
NoMetrics ==
  [requests |-> <<>>, invocations |-> <<>>, durations |-> <<>>,
   executionTimes |-> <<>>, errors |-> <<>>]

\* Mutant of recordRequest: an error.type passed by the caller is kept on
\* the function.errors point
recordRequest_CallerTypeWins(m, by, statusCode, hasDuration, attributes) ==
  LET baseAttributes ==
        Spread([status_code |-> NumberToString(statusCode),
                status_class |-> StatusClass(statusCode),
                function_name |-> "hello"],
               attributes)
      point == [by |-> by, attrs |-> baseAttributes]
      errPoint ==
        [by |-> by,
         attrs |-> Spread([error_type |-> IF statusCode >= 500
                                          THEN "server_error"
                                          ELSE "client_error"],
                          baseAttributes)]
  IN [m EXCEPT
        !.requests = Append(@, point),
        !.invocations = Append(@, point),
        !.durations = IF hasDuration THEN Append(@, point) ELSE @,
        !.executionTimes = IF hasDuration THEN Append(@, point) ELSE @,
        !.errors = IF statusCode >= 400 THEN Append(@, errPoint) ELSE @]

\* otel.ts recordRequest(statusCode, duration?, attributes?).  by is the
\* invocation that made the call (kept beside the attributes, not in them).
recordRequest(m, by, statusCode, hasDuration, attributes) ==
  LET baseAttributes ==
        Spread([status_code |-> NumberToString(statusCode),
                status_class |-> StatusClass(statusCode),
                function_name |-> "hello"],
               attributes)
      point == [by |-> by, attrs |-> baseAttributes]
      errPoint ==
        [by |-> by,
         attrs |-> Spread(baseAttributes,
                     [error_type |-> IF statusCode >= 500
                                     THEN "server_error"
                                     ELSE "client_error"])]
  IN [m EXCEPT
        !.requests = Append(@, point),
        !.invocations = Append(@, point),
        !.durations = IF hasDuration THEN Append(@, point) ELSE @,
        !.executionTimes = IF hasDuration THEN Append(@, point) ELSE @,
        !.errors = IF statusCode >= 400 THEN Append(@, errPoint) ELSE @]

\* functions/otel.js recordRequest(statusCode, duration): counter + histogram
recordRequestJs(m, by, statusCode) ==
  LET point == [by |-> by,
                attrs |-> [status_code |-> NumberToString(statusCode),
                           status_class |-> StatusClass(statusCode)]]
  IN [m EXCEPT !.requests = Append(@, point),
               !.durations = Append(@, point)]

\* Mutant of trackActiveRequest: the flag is ignored and 1 is always added
trackActiveRequest_AlwaysAdds(active, increment) == active + 1

\* otel.ts trackActiveRequest(increment): activeRequests.add(+1 / -1)
trackActiveRequest(active, increment) ==
  active + (IF increment THEN 1 ELSE -1)

\* ---------------------------------------------------------------- logger
\* Mutant of createLogger: the base context forgets the span id
createLogger_DropsSpanId(traceId, spanId) ==
  Spread([service |-> "netlify-ts-functions"],
         IF Truthy(traceId) THEN [traceId |-> traceId] ELSE <<>>)

\* hello.ts createLogger(traceId, spanId): the base context of every entry
createLogger(traceId, spanId) ==
  Spread(Spread([service |-> "netlify-ts-functions"],
                IF Truthy(traceId) THEN [traceId |-> traceId] ELSE <<>>),
         IF Truthy(spanId) THEN [spanId |-> spanId] ELSE <<>>)

\* logger.info / logger.error of createLogger:
\* { level, message, ...baseContext, ...attributes }
LoggerEntry(baseContext, level, message, attributes) ==
  Spread(Spread([level |-> level, message |-> message], baseContext),
         attributes)

\* functions/otel.js logger.info / logger.error:
\* { timestamp, level, message, ...attributes }
OtelLoggerEntry(level, message, attributes) ==
  Spread([level |-> level, message |-> message], attributes)

\* ----------------------------------------------------------------- state
VARIABLES
  rev,            \* handler revision loaded in this process
  otelRev,        \* otel module revision loaded in this process
  faults,         \* which calls may throw: "none", "metric" or "sdk"
  endpointSet,    \* process.env.OTEL_EXPORTER_OTLP_ENDPOINT is set
  loaded,         \* the handler module's top-level code has run
  otelInitialized,\* global.otelInitialized / let otelInitialized
  sdk,            \* otel module variable sdk: Null or an SDK instance
  constructed,    \* number of NodeSDK instances constructed so far
  started,        \* set of SDK instances whose start() completed
  initReturns,    \* values returned by the calls of initializeOtel
  running,        \* invocation whose synchronous code is executing, or 0
  invoked,        \* number of handler invocations begun
  pc,             \* position of each invocation
  randomNumber,   \* randomNumber of each invocation (0: not yet drawn)
  thrown,         \* exception travelling to the catch block
  pending,        \* completion recorded by try / catch before finally
  outcome,        \* settlement of the promise returned by handler
  span,           \* span of each invocation
  spansStarted,   \* spans created by the tracer
  activeRequests, \* net value of http.server.active_requests
  metrics,        \* points recorded on the other instruments
  logs,           \* structured log entries written, with their invocation
  diagnostics,    \* console.error lines of the guarded telemetry calls
  signals,        \* shutdownOtel runs begun
  shutPc,         \* position of each shutdownOtel run
  sdkShutdownCalls, \* calls of sdk.shutdown()
  meterShutdownCalls, \* calls of meterProvider.shutdown()
  exited,         \* process.exit was called; exitCode is its argument
  exitCode,
  queue,          \* Batching Queue: sequence numbers of the buffered Records
  submits,        \* result of each submit call, in call order
  procState,      \* Batch Processor: "Idle", "Accumulating" or "Flushing"
  exportPc,       \* Exporter Client: "none", "attempt" or "backoff"
  batch,          \* the in-flight Batch
  exported,       \* Batches delivered, in export order
  droppedBatches, \* Batches permanently dropped
  droppedCount,   \* the dropped counter
  calls           \* arguments of the direct calls of recordRequest

vars ==
  <<rev, otelRev, faults, endpointSet, loaded, otelInitialized, sdk,
    constructed, started, initReturns, running, invoked, pc, randomNumber,
    thrown, pending, outcome, span, spansStarted, activeRequests, metrics,
    logs, diagnostics, signals, shutPc, sdkShutdownCalls,
    meterShutdownCalls, exited, exitCode,
    queue, submits, procState, exportPc, batch, exported, droppedBatches,
    droppedCount, calls>>

handlerVars ==
  <<running, invoked, pc, randomNumber, thrown, pending, outcome, span,
    spansStarted, activeRequests, metrics, logs, diagnostics>>

otelVars ==
  <<loaded, otelInitialized, sdk, constructed, started, initReturns>>

shutdownVars ==
  <<signals, shutPc, sdkShutdownCalls, meterShutdownCalls, exited, exitCode>>

envVars == <<rev, otelRev, faults, endpointSet>>

pipelineVars ==
  <<queue, submits, procState, exportPc, batch, exported, droppedBatches,
    droppedCount>>

\* No Batch is in flight
NoBatch ==
  [records |-> <<>>, outcomes |-> <<>>, delays |-> <<>>, trigger |-> "none",
   at |-> 0]

NoCompletion == [kind |-> "none"]

FaultKinds == {"none", "metric", "sdk"}

\* Whether a metric call (trackActiveRequest, recordRequest) throws, and
\* whether an SDK call (new NodeSDK, sdk.start) throws: a choice only in a
\* process with that kind of fault
Throws == IF faults = "metric" THEN BOOLEAN ELSE {FALSE}
SdkThrows == IF faults = "sdk" THEN BOOLEAN ELSE {FALSE}

InitCommon ==
  /\ rev \in HandlerRevs
  /\ otelRev \in OtelRevs
  \* only part_002 reads whether the endpoint is set; the other revisions
  \* fall back to http://localhost:4318
  /\ endpointSet \in (IF otelRev = "part_002" THEN BOOLEAN ELSE {TRUE})
  /\ loaded = FALSE
  /\ otelInitialized = FALSE
  /\ sdk = Null
  /\ constructed = 0
  /\ started = {}
  /\ initReturns = <<>>
  /\ running = 0
  /\ invoked = 0
  /\ pc = [i \in Invocations |-> "idle"]
  /\ randomNumber = [i \in Invocations |-> 0]
  /\ thrown = [i \in Invocations |-> "none"]
  /\ pending = [i \in Invocations |-> NoCompletion]
  /\ outcome = [i \in Invocations |-> NoCompletion]
  /\ span = [i \in Invocations |-> NoSpan]
  /\ spansStarted = 0
  /\ activeRequests = 0
  /\ metrics = NoMetrics
  /\ logs = <<>>
  /\ diagnostics = 0
  /\ signals = 0
  /\ shutPc = [k \in 1..MaxSignals |-> "idle"]
  /\ sdkShutdownCalls = 0
  /\ meterShutdownCalls = 0
  /\ exited = FALSE
  /\ exitCode = -1
  /\ queue = <<>>
  /\ submits = <<>>
  /\ procState = "Idle"
  /\ exportPc = "none"
  /\ batch = NoBatch
  /\ exported = <<>>
  /\ droppedBatches = <<>>
  /\ droppedCount = 0
  /\ calls = <<>>

Init == InitCommon /\ faults \in FaultKinds

NominalInit == InitCommon /\ faults = "none"

\* ------------------------------------------------------------ scheduling
\* The continuation of an await on a settled promise, and a .catch
\* callback, are microtasks
MicrotaskPending ==
  \E i \in Invocations : pc[i] \in {"awaitOp", "dotCatch"}

\* Mutant of CallbackMayStart: a callback preempts whatever is running
CallbackMayStart_Preempts == TRUE

\* A new callback (an invocation, a signal handler, the settling of an I/O
\* promise) starts only when the stack is empty and no microtask is pending
CallbackMayStart == running = 0 /\ ~MicrotaskPending

\* ------------------------------------------------------- initializeOtel
\* The singleton revisions (otel.ts:96-257, part_001:90-178): the value
\* of sdk after the call, given what the constructor did.
SdkAfterInit(current, ctorThrows) ==
  IF Truthy(current) THEN current
  ELSE IF ctorThrows THEN current
  ELSE <<"sdk", constructed + 1>>

\* What a call completes with when it left its try block by an exception
Thrown == <<"thrown">>

\* Mutant of OnInitError: the catch block rethrows
OnInitError_Rethrows == Thrown

\* catch (error) { console.error(..); return null; }
OnInitError == Null

\* initializeOtel of the loaded otel revision, as a relation between the
\* module state before and after one call.  ctorThrows / startThrows say
\* whether new NodeSDK(...) / sdk.start() throws.
initializeOtel(ctorThrows, startThrows) ==
  IF otelRev = "part_002"
  THEN \* part_002:2-32: no module variable, a fresh SDK per call
       IF ~endpointSet
       THEN /\ initReturns' = Append(initReturns, Null)
            /\ UNCHANGED <<sdk, constructed, started>>
       ELSE /\ sdk' = sdk
            /\ constructed' = IF ctorThrows THEN constructed
                              ELSE constructed + 1
            /\ started' = IF ctorThrows \/ startThrows THEN started
                          ELSE started \cup {<<"sdk", constructed + 1>>}
            /\ initReturns' =
                 Append(initReturns,
                        IF ctorThrows \/ startThrows THEN OnInitError
                        ELSE <<"sdk", constructed + 1>>)
  ELSE IF Truthy(sdk)
       THEN /\ initReturns' = Append(initReturns, sdk)
            /\ UNCHANGED <<sdk, constructed, started>>
       ELSE /\ sdk' = SdkAfterInit(sdk, ctorThrows)
            /\ constructed' = IF ctorThrows THEN constructed
                              ELSE constructed + 1
            /\ started' = IF ctorThrows \/ startThrows THEN started
                          ELSE started \cup {<<"sdk", constructed + 1>>}
            /\ initReturns' =
                 Append(initReturns,
                        IF ctorThrows \/ startThrows THEN OnInitError
                        ELSE <<"sdk", constructed + 1>>)

\* Top-level code of the handler module:
\*   if (!otelInitialized) { initializeOtel(); otelInitialized = true; }
\* part_000:8-19 wraps the call in try / catch; elsewhere an exception of
\* initializeOtel would end the loading of the module
GuardsInit(r) == r = "part_000"

LoadModule ==
  /\ ~loaded /\ ~exited /\ initReturns = <<>>
  /\ \E ctorThrows \in SdkThrows, startThrows \in SdkThrows :
       initializeOtel(ctorThrows, startThrows)
  /\ loaded' = (initReturns'[1] # Thrown \/ GuardsInit(rev))
  /\ otelInitialized' = (initReturns'[1] # Thrown)
  /\ UNCHANGED <<envVars, handlerVars, shutdownVars>>
  /\ UNCHANGED <<pipelineVars, calls>>

\* A further call of initializeOtel: the top-level code of another module
\* of the same process, which runs while the process loads its modules
InitializeOtelAgain ==
  /\ loaded /\ ~exited /\ CallbackMayStart
  /\ invoked = 0 /\ signals = 0
  /\ Len(initReturns) < 1 + MaxInitCalls
  /\ \E ctorThrows \in SdkThrows, startThrows \in SdkThrows :
       initializeOtel(ctorThrows, startThrows)
  /\ UNCHANGED <<loaded, otelInitialized>>
  /\ UNCHANGED <<envVars, handlerVars, shutdownVars>>
  /\ UNCHANGED <<pipelineVars, calls>>

\* --------------------------------------------------------------- handler
\* What distinguishes the handler revisions
\* trackActiveRequest(true / false), or activeConnections.add(1 / -1)
TracksActive(r) == r \in {"hello_ts", "part_000", "hello_ts_logger"}
Guarded(r) == r = "part_000"         \* metric calls wrapped in try / catch
UsesExecuteWithSpan(r) == r = "telemetry"   \* FunctionTelemetry wrapper
SetsErrorType(r) == r \in {"hello_ts", "part_000", "hello_ts_logger"}
\* hello.ts:853-885: recordRequest, the function.end event and the last log
\* entry are in the finally block
ReportsInFinally(r) == r = "hello_ts_logger"

\* The error.type that the catch block puts on the span: a constant, or
\* error.constructor.name (hello.ts:829), which is "Error" for every
\* exception the handler can see
CatchErrorType(r) ==
  IF r = "hello_ts_logger" THEN "Error" ELSE "unhandled_error"

\* The message of the error entry logged where the random error is raised,
\* and of the one logged in the catch block
RandomErrorLog(r) ==
  IF r = "hello_ts_logger"
  THEN "Random error occurred during function execution"
  ELSE "Function execution failed"

CatchLog(r) ==
  IF r = "hello_ts_logger"
  THEN "Function execution failed with error"
  ELSE "Function execution failed with unhandled error"
ReportsColdStart(r) == r \in {"hello_ts", "part_000"}  \* function.cold_start

SuccessBody == "netlify-ts hello success"
RandomErrorMessage == "netlify-ts hello error"
MetricErrorMessage == "metric call failed"

\* error instanceof Error ? error.message : "Unknown error"
ErrorMessage(t) ==
  IF t = "random" THEN RandomErrorMessage ELSE MetricErrorMessage

\* The headers object of the responses built inside the span callback
ResponseHeaders(r, s) ==
  IF r \in {"hello_ts", "part_000", "hello_ts_logger"}
  THEN ("Content-Type" :> "text/plain") @@ ("X-Trace-Id" :> s.traceId)
         @@ ("X-Span-Id" :> s.spanId)
  ELSE ("Content-Type" :> "text/plain") @@ ("X-Trace-Id" :> s.traceId)

Response(statusCode, body, headers) ==
  [statusCode |-> statusCode, body |-> body, headers |-> headers]

\* hello.ts:296-305: the handler's .catch on executeWithSpan
DotCatchResponse(t) ==
  Response(500, ErrorMessage(t), ("Content-Type" :> "text/plain"))

Return(resp) == [kind |-> "return", resp |-> resp]
Throw == [kind |-> "throw"]
Rejected == [kind |-> "rejected"]
Resolved(resp) == [kind |-> "resolved", resp |-> resp]

\* An async function settles its promise with the completion of its body
Settle(completion) ==
  IF completion.kind = "return" THEN Resolved(completion.resp) ELSE Rejected

\* One structured log entry of invocation i
LogLine(i, level, message, attributes) ==
  IF rev = "hello_js"
  THEN OtelLoggerEntry(level, message,
         Spread([traceId |-> span[i].traceId, spanId |-> span[i].spanId],
                attributes))
  ELSE LoggerEntry(createLogger(span[i].traceId, span[i].spanId),
                   level, message, attributes)

Log(i, level, message, attributes) ==
  Append(logs, [by |-> i, entry |-> LogLine(i, level, message, attributes)])

\* recordRequest as the loaded handler revision calls it
RecordRequestCall(i, statusCode, attributes) ==
  IF rev = "hello_js"
  THEN recordRequestJs(metrics, i, statusCode)
  ELSE recordRequest(metrics, i, statusCode, TRUE, attributes)

\* Whether the recordRequest call of the try and catch blocks throws; the
\* revision that records in its finally block makes no such call there
BlockThrows == IF ReportsInFinally(rev) THEN {FALSE} ELSE Throws

\* handler entry: const startTime = Date.now(); trackActiveRequest(true);
Invoke(i) ==
  /\ loaded /\ ~exited /\ CallbackMayStart
  /\ i = invoked + 1 /\ pc[i] = "idle"
  /\ invoked' = i
  /\ IF TracksActive(rev)
     THEN \E thr \in Throws :
            IF thr /\ ~Guarded(rev)
            THEN \* the exception leaves the async function
                 /\ outcome' = [outcome EXCEPT ![i] = Rejected]
                 /\ pc' = [pc EXCEPT ![i] = "done"]
                 /\ UNCHANGED <<running, activeRequests, diagnostics>>
            ELSE /\ activeRequests' =
                      IF thr THEN activeRequests
                      ELSE trackActiveRequest(activeRequests, TRUE)
                 /\ diagnostics' = IF thr THEN diagnostics + 1
                                   ELSE diagnostics
                 /\ pc' = [pc EXCEPT ![i] = "startSpan"]
                 /\ running' = i
                 /\ UNCHANGED outcome
     ELSE /\ pc' = [pc EXCEPT ![i] = "startSpan"]
          /\ running' = i
          /\ UNCHANGED <<outcome, activeRequests, diagnostics>>
  /\ UNCHANGED <<randomNumber, thrown, pending, span, spansStarted,
                 metrics, logs>>
  /\ UNCHANGED <<envVars, otelVars, shutdownVars>>
  /\ UNCHANGED <<pipelineVars, calls>>

\* tracer.startActiveSpan(name, options, async (span) => { ... })
StartSpan(i) ==
  /\ running = i /\ pc[i] = "startSpan"
  /\ spansStarted' = spansStarted + 1
  /\ span' = [span EXCEPT ![i] = NewSpan(spansStarted + 1)]
  /\ pc' = [pc EXCEPT ![i] = "try"]
  /\ UNCHANGED <<running, invoked, randomNumber, thrown, pending, outcome,
                 activeRequests, metrics, logs, diagnostics>>
  /\ UNCHANGED <<envVars, otelVars, shutdownVars>>
  /\ UNCHANGED <<pipelineVars, calls>>

\* The values k of Math.random() = k / RandomGrain that the process draws
Draws ==
  {k \in 0..(RandomGrain - 1) : faults = "none" \/ k % FaultStride = 0}

\* try { setAttributes; log start; randomNumber; addEvent("function.start")
TryBegin(i) ==
  /\ running = i /\ pc[i] = "try"
  /\ \E k \in Draws :
       randomNumber' = [randomNumber EXCEPT ![i] = RandomNumber(k)]
  /\ IF UsesExecuteWithSpan(rev)
     THEN UNCHANGED <<span, logs>>
     ELSE /\ span' = [span EXCEPT ![i] =
               IF ReportsColdStart(rev)
               THEN FunctionStart(@, otelInitialized)
               ELSE AddEvent(@, "function.start")]
          /\ logs' = Log(i, "info", "Function execution started", <<>>)
  /\ pc' = [pc EXCEPT ![i] = "branch"]
  /\ UNCHANGED <<running, invoked, thrown, pending, outcome, spansStarted,
                 activeRequests, metrics, diagnostics>>
  /\ UNCHANGED <<envVars, otelVars, shutdownVars>>
  /\ UNCHANGED <<pipelineVars, calls>>

\* if (isError) { setStatus(ERROR); setAttributes; recordRequest(500);
\*   addEvent("function.error"); recordException; logger.error; throw error }
ErrorPath(i) ==
  /\ running = i /\ pc[i] = "branch" /\ randomNumber[i] = 1
  /\ IF UsesExecuteWithSpan(rev)
     THEN \* hello.ts:270-279: the operation throws, executeWithSpan awaits
          /\ span' = [span EXCEPT ![i] = AddEvent(@, "function.error")]
          /\ thrown' = [thrown EXCEPT ![i] = "random"]
          /\ pc' = [pc EXCEPT ![i] = "awaitOp"]
          /\ running' = 0
          /\ UNCHANGED <<metrics, logs, diagnostics>>
     ELSE /\ pc' = [pc EXCEPT ![i] = "catch"]
          /\ UNCHANGED running
          /\ LET marked ==
                SetHttpStatus(SetStatus(span[i], "ERROR"), 500)
                 s1 == IF SetsErrorType(rev)
                       THEN SetErrorType(marked, "random_error") ELSE marked
             IN \E thr \in BlockThrows :
               IF thr /\ ~Guarded(rev)
               THEN \* recordRequest throws into the catch block
                    /\ span' = [span EXCEPT ![i] = s1]
                    /\ thrown' = [thrown EXCEPT ![i] = "metric"]
                    /\ UNCHANGED <<metrics, logs, diagnostics>>
               ELSE /\ metrics' =
                         IF thr \/ ReportsInFinally(rev) THEN metrics
                         ELSE RecordRequestCall(i, 500,
                                [error_type |-> "random_error"])
                    /\ diagnostics' = IF thr THEN diagnostics + 1
                                      ELSE diagnostics
                    /\ span' = [span EXCEPT ![i] =
                         RecordException(AddEvent(s1, "function.error"))]
                    /\ logs' = Log(i, "error", RandomErrorLog(rev),
                                   [statusCode |-> 500])
                    /\ thrown' = [thrown EXCEPT ![i] = "random"]
  /\ UNCHANGED <<invoked, randomNumber, pending, outcome, spansStarted,
                 activeRequests>>
  /\ UNCHANGED <<envVars, otelVars, shutdownVars>>
  /\ UNCHANGED <<pipelineVars, calls>>

\* setStatus(OK); setAttributes(200); recordRequest(200);
\* addEvent("function.success"); logger.info; return { statusCode: 200 .. }
SuccessPath(i) ==
  /\ running = i /\ pc[i] = "branch" /\ randomNumber[i] # 1
  /\ IF UsesExecuteWithSpan(rev)
     THEN \* hello.ts:281-295: the operation returns, executeWithSpan awaits
          /\ span' = [span EXCEPT ![i] = AddEvent(@, "function.success")]
          /\ pending' = [pending EXCEPT ![i] =
               Return(Response(200, SuccessBody,
                               ResponseHeaders(rev, span[i])))]
          /\ pc' = [pc EXCEPT ![i] = "awaitOp"]
          /\ running' = 0
          /\ UNCHANGED <<thrown, metrics, logs, diagnostics>>
     ELSE /\ UNCHANGED running
          /\ LET s1 == SetHttpStatus(SetStatus(span[i], "OK"), 200)
             IN \E thr \in BlockThrows :
               IF thr /\ ~Guarded(rev)
               THEN \* recordRequest throws into the catch block
                    /\ span' = [span EXCEPT ![i] = s1]
                    /\ thrown' = [thrown EXCEPT ![i] = "metric"]
                    /\ pc' = [pc EXCEPT ![i] = "catch"]
                    /\ UNCHANGED <<pending, metrics, logs, diagnostics>>
               ELSE /\ metrics' =
                         IF thr \/ ReportsInFinally(rev) THEN metrics
                         ELSE RecordRequestCall(i, 200, <<>>)
                    /\ diagnostics' = IF thr THEN diagnostics + 1
                                      ELSE diagnostics
                    /\ span' = [span EXCEPT ![i] =
                         AddEvent(s1, "function.success")]
                    /\ logs' = Log(i, "info",
                          "Function execution completed successfully",
                          [statusCode |-> 200])
                    /\ pending' = [pending EXCEPT ![i] =
                         Return(Response(200, SuccessBody,
                                         ResponseHeaders(rev, span[i])))]
                    /\ pc' = [pc EXCEPT ![i] = "finally"]
                    /\ UNCHANGED thrown
  /\ UNCHANGED <<invoked, randomNumber, outcome, spansStarted,
                 activeRequests>>
  /\ UNCHANGED <<envVars, otelVars, shutdownVars>>
  /\ UNCHANGED <<pipelineVars, calls>>

\* catch (error) { setStatus(ERROR); setAttributes(500); recordRequest(500);
\*   recordException; logger.error; return { statusCode: 500 .. } }
Catch(i) ==
  /\ running = i /\ pc[i] = "catch"
  /\ LET marked == SetHttpStatus(SetStatus(span[i], "ERROR"), 500)
         s1 == IF SetsErrorType(rev)
               THEN SetErrorType(marked, CatchErrorType(rev)) ELSE marked
     IN \E thr \in BlockThrows :
          IF thr /\ ~Guarded(rev)
          THEN \* recordRequest throws out of the catch block
               /\ span' = [span EXCEPT ![i] = s1]
               /\ pending' = [pending EXCEPT ![i] = Throw]
               /\ UNCHANGED <<metrics, logs, diagnostics>>
          ELSE /\ metrics' =
                    IF thr \/ ReportsInFinally(rev) THEN metrics
                    ELSE RecordRequestCall(i, 500,
                           [error_type |-> "unhandled_error"])
               /\ diagnostics' = IF thr THEN diagnostics + 1
                                 ELSE diagnostics
               /\ span' = [span EXCEPT ![i] = RecordException(s1)]
               /\ logs' = Log(i, "error", CatchLog(rev),
                     [statusCode |-> 500])
               /\ pending' = [pending EXCEPT ![i] =
                    Return(Response(500, ErrorMessage(thrown[i]),
                                    ResponseHeaders(rev, span[i])))]
  /\ pc' = [pc EXCEPT ![i] = "finally"]
  /\ UNCHANGED <<running, invoked, randomNumber, thrown, outcome,
                 spansStarted, activeRequests>>
  /\ UNCHANGED <<envVars, otelVars, shutdownVars>>
  /\ UNCHANGED <<pipelineVars, calls>>

\* Mutant of FinallyReport: span.end() is called first, before the final
\* attributes and the function.end event are put on the span
FinallyReport_EndsFirst(i) ==
  LET statusCode == IF pending[i].kind = "return"
                    THEN pending[i].resp.statusCode ELSE 500
  IN \E thrRecord \in Throws, thrAdd \in Throws :
       /\ metrics' = IF thrRecord THEN metrics
                     ELSE RecordRequestCall(i, statusCode, <<>>)
       /\ IF thrRecord \/ thrAdd
          THEN /\ outcome' = [outcome EXCEPT ![i] = Rejected]
               /\ span' = [span EXCEPT ![i] = EndSpan(@)]
               /\ UNCHANGED <<activeRequests, logs>>
          ELSE /\ activeRequests' = trackActiveRequest(activeRequests, FALSE)
               /\ logs' = Log(i, "info", "Function execution completed",
                              [statusCode |-> statusCode])
               /\ span' = [span EXCEPT ![i] =
                    AddEvent(EndSpan(@), "function.end")]
               /\ outcome' = [outcome EXCEPT ![i] = Settle(pending[i])]
       /\ UNCHANGED diagnostics

\* hello.ts:853-885: finally { recordRequest(statusCode, duration);
\*   activeConnections.add(-1); span.setAttributes; addEvent("function.end");
\*   log "Function execution completed"; span.end(); }
\* An exception of one of the two metric calls replaces the completion and
\* skips the rest of the block.
FinallyReport(i) ==
  LET statusCode == IF pending[i].kind = "return"
                    THEN pending[i].resp.statusCode ELSE 500
  IN \E thrRecord \in Throws, thrAdd \in Throws :
       /\ metrics' = IF thrRecord THEN metrics
                     ELSE RecordRequestCall(i, statusCode, <<>>)
       /\ IF thrRecord \/ thrAdd
          THEN /\ outcome' = [outcome EXCEPT ![i] = Rejected]
               /\ UNCHANGED <<span, activeRequests, logs>>
          ELSE /\ activeRequests' = trackActiveRequest(activeRequests, FALSE)
               /\ logs' = Log(i, "info", "Function execution completed",
                              [statusCode |-> statusCode])
               /\ span' = [span EXCEPT ![i] =
                    EndSpan(AddEvent(@, "function.end"))]
               /\ outcome' = [outcome EXCEPT ![i] = Settle(pending[i])]
       /\ UNCHANGED diagnostics

\* finally { trackActiveRequest(false); span.end(); }
Finally(i) ==
  /\ running = i /\ pc[i] = "finally"
  /\ IF ReportsInFinally(rev)
     THEN FinallyReport(i)
     ELSE /\ UNCHANGED <<metrics, logs>>
          /\ IF TracksActive(rev)
             THEN \E thr \in Throws :
                IF thr /\ ~Guarded(rev)
                THEN \* the exception replaces the completion; end() is
                     \* skipped
                     /\ outcome' = [outcome EXCEPT ![i] = Rejected]
                     /\ UNCHANGED <<span, activeRequests, diagnostics>>
                ELSE /\ activeRequests' =
                          IF thr THEN activeRequests
                          ELSE trackActiveRequest(activeRequests, FALSE)
                     /\ diagnostics' = IF thr THEN diagnostics + 1
                                       ELSE diagnostics
                     /\ span' = [span EXCEPT ![i] = EndSpan(@)]
                     /\ outcome' = [outcome EXCEPT ![i] = Settle(pending[i])]
             ELSE /\ span' = [span EXCEPT ![i] = EndSpan(@)]
                  /\ outcome' = [outcome EXCEPT ![i] = Settle(pending[i])]
                  /\ UNCHANGED <<activeRequests, diagnostics>>
  /\ pc' = [pc EXCEPT ![i] = "done"]
  /\ running' = 0
  /\ UNCHANGED <<invoked, randomNumber, thrown, pending, spansStarted>>
  /\ UNCHANGED <<envVars, otelVars, shutdownVars>>
  /\ UNCHANGED <<pipelineVars, calls>>

\* telemetry.ts:27-42: executeWithSpan resumes after await operation(span)
Resume(i) ==
  /\ ~exited /\ running = 0 /\ pc[i] = "awaitOp"
  /\ IF thrown[i] = "none"
     THEN /\ span' = [span EXCEPT ![i] = EndSpan(SetStatus(@, "OK"))]
          /\ outcome' = [outcome EXCEPT ![i] = Settle(pending[i])]
          /\ pc' = [pc EXCEPT ![i] = "done"]
     ELSE /\ span' = [span EXCEPT ![i] =
               EndSpan(RecordException(SetStatus(@, "ERROR")))]
          /\ pc' = [pc EXCEPT ![i] = "dotCatch"]
          /\ UNCHANGED outcome
  /\ UNCHANGED <<running, invoked, randomNumber, thrown, pending,
                 spansStarted, activeRequests, metrics, logs, diagnostics>>
  /\ UNCHANGED <<envVars, otelVars, shutdownVars>>
  /\ UNCHANGED <<pipelineVars, calls>>

\* hello.ts:296-305: .catch((error) => ({ statusCode: 500, ... }))
DotCatch(i) ==
  /\ ~exited /\ running = 0 /\ pc[i] = "dotCatch"
  /\ outcome' = [outcome EXCEPT ![i] = Resolved(DotCatchResponse(thrown[i]))]
  /\ pc' = [pc EXCEPT ![i] = "done"]
  /\ UNCHANGED <<running, invoked, randomNumber, thrown, pending, span,
                 spansStarted, activeRequests, metrics, logs, diagnostics>>
  /\ UNCHANGED <<envVars, otelVars, shutdownVars>>
  /\ UNCHANGED <<pipelineVars, calls>>

\* -------------------------------------------------------------- shutdown
HasShutdown(r) == r \in {"otel_ts", "part_001", "logger_ts"}
\* process.exit(0) at the end of shutdownOtel, which is registered on signals
ExitsOnShutdown(r) == r \in {"otel_ts", "logger_ts"}
\* logger.ts:173, 272: a MeterProvider of its own, shut down separately
OwnsMeterProvider(r) == r = "logger_ts"

\* meterProvider is assigned by the first call of initializeOtel that
\* reaches its try block (logger.ts:272-280)
MeterProviderSet == OwnsMeterProvider(otelRev) /\ initReturns # <<>>

\* Whether a shutdown() promise rejects: a choice in a process whose SDK
\* calls fail
Rejects == SdkThrows

\* The end of a shutdownOtel run: how it ended, then process.exit(0)
ShutdownEnd(k, how) ==
  /\ shutPc' = [shutPc EXCEPT ![k] = how]
  /\ exited' = ExitsOnShutdown(otelRev)
  /\ exitCode' = IF ExitsOnShutdown(otelRev) THEN 0 ELSE exitCode

\* shutdownOtel up to its first await.  otel.ts:260-263 (on SIGTERM /
\* SIGINT) and part_001:181-184 (when called): if (sdk) { try { await
\* sdk.shutdown();  logger.ts:328-331: try { if (meterProvider) { await
\* meterProvider.shutdown();
ShutdownBegin(k) ==
  /\ HasShutdown(otelRev)
  /\ loaded /\ ~exited /\ CallbackMayStart
  /\ k = signals + 1 /\ k <= MaxSignals
  /\ signals' = k
  /\ IF MeterProviderSet
     THEN /\ meterShutdownCalls' = meterShutdownCalls + 1
          /\ shutPc' = [shutPc EXCEPT ![k] = "awaitingMeter"]
          /\ UNCHANGED <<sdkShutdownCalls, exited, exitCode>>
     ELSE IF Truthy(sdk)
     THEN /\ sdkShutdownCalls' = sdkShutdownCalls + 1
          /\ shutPc' = [shutPc EXCEPT ![k] = "awaiting"]
          /\ UNCHANGED <<meterShutdownCalls, exited, exitCode>>
     ELSE /\ ShutdownEnd(k, "noSdk")
          /\ UNCHANGED <<sdkShutdownCalls, meterShutdownCalls>>
  /\ UNCHANGED <<envVars, otelVars, handlerVars>>
  /\ UNCHANGED <<pipelineVars, calls>>

\* logger.ts:331-335: meterProvider.shutdown() settles.  Resolved: go on to
\* if (sdk) { await sdk.shutdown();  rejected: the catch block of the one
\* try statement, then process.exit(0)
MeterShutdownSettle(k) ==
  /\ ~exited /\ CallbackMayStart
  /\ shutPc[k] = "awaitingMeter"
  /\ \E rejected \in Rejects :
       IF rejected
       THEN /\ ShutdownEnd(k, "meterRejected")
            /\ UNCHANGED sdkShutdownCalls
       ELSE IF Truthy(sdk)
       THEN /\ sdkShutdownCalls' = sdkShutdownCalls + 1
            /\ shutPc' = [shutPc EXCEPT ![k] = "awaiting"]
            /\ UNCHANGED <<exited, exitCode>>
       ELSE /\ ShutdownEnd(k, "noSdk")
            /\ UNCHANGED sdkShutdownCalls
  /\ UNCHANGED <<signals, meterShutdownCalls>>
  /\ UNCHANGED <<envVars, otelVars, handlerVars>>
  /\ UNCHANGED <<pipelineVars, calls>>

\* sdk.shutdown() settles (resolved or rejected, both are logged), then
\* process.exit(0) in the revisions that exit
ShutdownSettle(k) ==
  /\ ~exited /\ CallbackMayStart
  /\ shutPc[k] = "awaiting"
  /\ \E rejected \in Rejects :
       ShutdownEnd(k, IF rejected THEN "rejected" ELSE "resolved")
  /\ UNCHANGED <<signals, sdkShutdownCalls, meterShutdownCalls>>
  /\ UNCHANGED <<envVars, otelVars, handlerVars>>
  /\ UNCHANGED <<pipelineVars, calls>>

\* ------------------------------------------------------- export pipeline
\* The pipeline that new NodeSDK({ spanProcessor: new BatchSpanProcessor(
\* traceExporter), .. }) sets up lives in the SDK; it is modelled from the
\* specification's sections 3 to 5.  A Record is named by its sequence
\* number, the number of the submit call that offered it.

\* Exporter Client configuration (section 4.3)
BaseDelay == 1          \* seconds
Multiplier == 2
DelayCap == 30          \* seconds

ExportResults == {"success", "transient", "permanent"}

Min(a, b) == IF a <= b THEN a ELSE b

RECURSIVE Power(_, _)
Power(b, e) == IF e = 0 THEN 1 ELSE b * Power(b, e - 1)

\* Mutant of BackoffDelay: every retry waits the base delay
BackoffDelay_Constant(n) == BaseDelay

\* Exponential backoff: the delay that follows the n-th failed attempt
BackoffDelay(n) == Min(BaseDelay * Power(Multiplier, n - 1), DelayCap)

\* Mutant of enqueue: a full queue swallows the Record and reports success
enqueue_SilentDrop(q, record) ==
  IF Len(q) >= QueueCapacity
  THEN [queue |-> q, result |-> "Ok"]
  ELSE [queue |-> Append(q, record), result |-> "Ok"]

\* Batching Queue enqueue(record): QueueFull when occupancy is at capacity
enqueue(q, record) ==
  IF Len(q) >= QueueCapacity
  THEN [queue |-> q, result |-> "QueueFull"]
  ELSE [queue |-> Append(q, record), result |-> "Ok"]

\* Mutant of drain: max_n is ignored and the whole queue is taken
drain_TakesAll(q, max_n) == [records |-> q, rest |-> <<>>]

\* Mutant of drain: the Records taken stay in the queue
drain_KeepsRecords(q, max_n) ==
  [records |-> SubSeq(q, 1, Min(max_n, Len(q))), rest |-> q]

\* Batching Queue drain(max_n): removes and returns up to max_n oldest
drain(q, max_n) ==
  [records |-> SubSeq(q, 1, Min(max_n, Len(q))),
   rest |-> SubSeq(q, Min(max_n, Len(q)) + 1, Len(q))]

\* The pipeline exists once initializeOtel has started an SDK
PipelineUp == started # {} /\ ~exited

\* Mutant of Submit: the producer waits until no export is in progress
Submit_AwaitsExport ==
  /\ PipelineUp
  /\ exportPc = "none"
  /\ Len(submits) < MaxSubmits
  /\ LET e == enqueue(queue, Len(submits) + 1)
     IN /\ queue' = e.queue
        /\ submits' = Append(submits, e.result)
        /\ procState' = IF procState = "Idle" /\ e.result = "Ok"
                        THEN "Accumulating" ELSE procState
  /\ UNCHANGED <<exportPc, batch, exported, droppedBatches, droppedCount>>
  /\ UNCHANGED <<envVars, otelVars, handlerVars, shutdownVars, calls>>

\* Pipeline Handle submit(record), called by a producer (span.end());
\* Idle -> Accumulating on the first enqueue after a flush
Submit ==
  /\ PipelineUp
  /\ Len(submits) < MaxSubmits
  /\ LET e == enqueue(queue, Len(submits) + 1)
     IN /\ queue' = e.queue
        /\ submits' = Append(submits, e.result)
        /\ procState' = IF procState = "Idle" /\ e.result = "Ok"
                        THEN "Accumulating" ELSE procState
  /\ UNCHANGED <<exportPc, batch, exported, droppedBatches, droppedCount>>
  /\ UNCHANGED <<envVars, otelVars, handlerVars, shutdownVars, calls>>

\* Accumulating -> Flushing: the processor takes up to batchMaxSize Records
StartFlush(trigger) ==
  /\ PipelineUp
  /\ procState = "Accumulating"
  /\ LET d == drain(queue, BatchMaxSize)
     IN /\ queue' = d.rest
        /\ batch' = [NoBatch EXCEPT !.records = d.records,
                                    !.trigger = trigger,
                                    !.at = Len(submits)]
  /\ procState' = "Flushing"
  /\ exportPc' = "attempt"
  /\ UNCHANGED <<submits, exported, droppedBatches, droppedCount>>
  /\ UNCHANGED <<envVars, otelVars, handlerVars, shutdownVars, calls>>

\* trigger (a): occupancy >= batchMaxSize
SizeFlush == Len(queue) >= BatchMaxSize /\ StartFlush("size")

\* trigger (b): batchTimeout elapsed before the batch filled up
TimeoutFlush == Len(queue) < BatchMaxSize /\ StartFlush("timeout")

\* Mutant of AfterFlush: the processor always returns to Idle and waits
\* for the next enqueue
AfterFlush_AlwaysIdle(q) == "Idle"

\* The processor after a Batch has left the exporter.  Records still queued
\* are accumulating: the flush timer keeps firing every batchTimeout
\* (section 8), so they need no further enqueue to be flushed
AfterFlush(q) == IF q = <<>> THEN "Idle" ELSE "Accumulating"

\* Mutant of GivesUp: a permanent failure is retried like a transient one
GivesUp_RetriesPermanent(result, n) == n >= MaxAttempts

\* Whether the n-th attempt, having failed with result, was the last:
\* ExportError::Permanent is never retried, a transient failure is retried
\* until MaxAttempts attempts were made
GivesUp(result, n) == result = "permanent" \/ n >= MaxAttempts

\* One export attempt and what the Exporter Client does with its result
ExportAttempt ==
  /\ PipelineUp
  /\ procState = "Flushing" /\ exportPc = "attempt"
  /\ \E result \in ExportResults :
       LET b == [batch EXCEPT !.outcomes = Append(@, result)]
           n == Len(b.outcomes)
       IN IF result = "success"
          THEN /\ exported' = Append(exported, b)
               /\ batch' = NoBatch
               /\ exportPc' = "none"
               /\ procState' = AfterFlush(queue)
               /\ UNCHANGED <<droppedBatches, droppedCount>>
          ELSE IF GivesUp(result, n)
          THEN \* ExportError::Permanent, or the retries are exhausted
               /\ droppedBatches' = Append(droppedBatches, b)
               /\ droppedCount' = droppedCount + Len(b.records)
               /\ batch' = NoBatch
               /\ exportPc' = "none"
               /\ procState' = AfterFlush(queue)
               /\ UNCHANGED exported
          ELSE /\ batch' = [b EXCEPT !.delays = Append(@, BackoffDelay(n))]
               /\ exportPc' = "backoff"
               /\ UNCHANGED <<procState, exported, droppedBatches,
                              droppedCount>>
  /\ UNCHANGED <<queue, submits>>
  /\ UNCHANGED <<envVars, otelVars, handlerVars, shutdownVars, calls>>

\* The backoff delay has elapsed: the scheduled wake of the retry
BackoffElapsed ==
  /\ PipelineUp
  /\ procState = "Flushing" /\ exportPc = "backoff"
  /\ exportPc' = "attempt"
  /\ UNCHANGED <<queue, submits, procState, batch, exported, droppedBatches,
                 droppedCount>>
  /\ UNCHANGED <<envVars, otelVars, handlerVars, shutdownVars, calls>>

\* ------------------------------------------------- recordRequest, direct
\* Arguments a caller may pass to recordRequest
StatusCodes == {200, 302, 399, 400, 404, 499, 500, 503}
AttributeSets ==
  {<<>>, [http_method |-> "GET"], [error_type |-> "random_error"],
   [http_method |-> "GET", error_type |-> "unhandled_error"]}

\* recordRequest(statusCode, duration?, attributes?) called on the loaded
\* otel module; the n-th call marks its points with by = n
CallRecordRequest ==
  /\ Len(calls) < MaxCalls
  /\ \E statusCode \in StatusCodes, hasDuration \in BOOLEAN,
        attributes \in AttributeSets :
       /\ calls' = Append(calls, [statusCode |-> statusCode,
                                  hasDuration |-> hasDuration,
                                  attributes |-> attributes])
       /\ metrics' = recordRequest(metrics, Len(calls) + 1, statusCode,
                                   hasDuration, attributes)
  /\ UNCHANGED <<running, invoked, pc, randomNumber, thrown, pending,
                 outcome, span, spansStarted, activeRequests, logs,
                 diagnostics>>
  /\ UNCHANGED <<envVars, otelVars, shutdownVars, pipelineVars>>

\* ------------------------------------------------------------------ spec
Next ==
  \/ LoadModule
  \/ InitializeOtelAgain
  \/ \E i \in Invocations : Invoke(i)
  \/ \E i \in Invocations : StartSpan(i)
  \/ \E i \in Invocations : TryBegin(i)
  \/ \E i \in Invocations : ErrorPath(i)
  \/ \E i \in Invocations : SuccessPath(i)
  \/ \E i \in Invocations : Catch(i)
  \/ \E i \in Invocations : Finally(i)
  \/ \E i \in Invocations : Resume(i)
  \/ \E i \in Invocations : DotCatch(i)
  \/ \E k \in 1..MaxSignals : ShutdownBegin(k)
  \/ \E k \in 1..MaxSignals : MeterShutdownSettle(k)
  \/ \E k \in 1..MaxSignals : ShutdownSettle(k)

\* A process in which metric and SDK calls may throw
Spec == Init /\ [][Next]_vars

\* A process in which no metric or SDK call throws
NominalSpec == NominalInit /\ [][Next]_vars

\* The export pipeline of a process whose calls do not throw: the module is
\* loaded, producers submit, the processor flushes and the exporter retries
PipelineInit == NominalInit /\ rev = "hello_ts" /\ otelRev = "otel_ts"

PipelineNext ==
  \/ LoadModule
  \/ Submit
  \/ SizeFlush
  \/ TimeoutFlush
  \/ ExportAttempt
  \/ BackoffElapsed

PipelineSpec == PipelineInit /\ [][PipelineNext]_vars

\* The single processor loop is always scheduled again (section 5): a
\* pending flush, export attempt or retry wake is eventually performed
PipelineFairSpec ==
  /\ PipelineSpec
  /\ WF_vars(SizeFlush) /\ WF_vars(TimeoutFlush)
  /\ WF_vars(ExportAttempt) /\ WF_vars(BackoffElapsed)

\* The otel module's recordRequest called with arbitrary arguments
MetricsInit == NominalInit /\ rev = "hello_ts" /\ otelRev = "otel_ts"

MetricsNext == CallRecordRequest

MetricsSpec == MetricsInit /\ [][MetricsNext]_vars

TypeOK ==
  /\ rev \in HandlerRevs /\ otelRev \in OtelRevs
  /\ running \in 0..MaxInvocations
  /\ invoked \in 0..MaxInvocations
  /\ \A i \in Invocations :
       pc[i] \in {"idle", "startSpan", "try", "branch", "catch", "finally",
                  "awaitOp", "dotCatch", "done"}

\* ---------------------------------------------------------------- claims
Done(i) == pc[i] = "done"
Responded(i) == outcome[i].kind = "resolved"
InFlight == {i \in Invocations : pc[i] \notin {"idle", "done"}}
RequestPointsOf(i) ==
  {n \in DOMAIN metrics.requests : metrics.requests[n].by = i}
RecordsRequests(r) == r \in {"hello_ts", "hello_js", "part_000"}

\* C1: the span started for an invocation has been ended exactly once when
\* the invocation is over, whatever path the span callback left by
\* (return, the random error, or an exception of a telemetry call in the
\* finally block).
C1_SpanEndedExactlyOnce ==
  \A i \in Invocations : Done(i) /\ span[i].started => span[i].ended = 1

\* C2: the promise returned by handler never rejects, even when a telemetry
\* call of the invocation throws.
C2_HandlerNeverRejects ==
  \A i \in Invocations : outcome[i].kind # "rejected"

\* C3: every response returned, 200 or 500, carries an X-Trace-Id header
\* holding the trace id of the span of the same invocation.
C3_ResponseCarriesTraceId ==
  \A i \in Invocations :
    Responded(i) =>
      LET headers == outcome[i].resp.headers
      IN /\ "X-Trace-Id" \in DOMAIN headers
         /\ headers["X-Trace-Id"] = span[i].traceId

\* C4: in the revisions that record request metrics, an invocation that
\* returned a response has incremented http.server.requests exactly once,
\* with http.status_code equal to the status code of that response.
C4_RequestCountedOnce ==
  \A i \in Invocations :
    RecordsRequests(rev) /\ Responded(i) =>
      /\ Cardinality(RequestPointsOf(i)) = 1
      /\ \A n \in RequestPointsOf(i) :
           metrics.requests[n].attrs.status_code =
             NumberToString(outcome[i].resp.statusCode)

C6_SingleSdk ==
  /\ constructed <= 1
  /\ Cardinality(started) <= 1
  /\ \A m, n \in DOMAIN initReturns :
       m < n /\ Truthy(initReturns[m]) => initReturns[n] = initReturns[m]

\* C7: whatever the number of shutdownOtel runs, and however they overlap,
\* sdk.shutdown() (and with it the final flush) is performed at most once.
C7_ShutdownAtMostOnce == sdkShutdownCalls <= 1

\* C8: when the generated number is not 1 the response is 200 with the
\* success body, even if recording the request metric threw.
C8_OutcomeIndependentOfMetrics ==
  \A i \in Invocations :
    Responded(i) /\ randomNumber[i] # 1 =>
      /\ outcome[i].resp.statusCode = 200
      /\ outcome[i].resp.body = SuccessBody

\* C9: every response returned, 200 or 500, carries both X-Trace-Id and
\* X-Span-Id, holding the ids of the span of the same invocation.
C9_ResponseCarriesBothIds ==
  \A i \in Invocations :
    Responded(i) =>
      LET headers == outcome[i].resp.headers
      IN /\ {"X-Trace-Id", "X-Span-Id"} \subseteq DOMAIN headers
         /\ headers["X-Trace-Id"] = span[i].traceId
         /\ headers["X-Span-Id"] = span[i].spanId

C11_SpanStatusMatchesResponse ==
  \A i \in Invocations :
    span[i].ended > 0 /\ Responded(i) =>
      LET statusCode == outcome[i].resp.statusCode
      IN /\ span[i].status = "OK" <=> statusCode = 200
         /\ span[i].status = "ERROR" <=> statusCode = 500
         /\ span[i].status \in {"OK", "ERROR"}
         /\ span[i].httpStatus # 0 => span[i].httpStatus = statusCode
         /\ ~UsesExecuteWithSpan(rev) => span[i].httpStatus = statusCode

\* C11 witness: a span first marked OK / 200 was re-marked in the catch
\* block after recordRequest threw, and ended with a 500 response
C11_Witness ==
  \E i \in Invocations :
    /\ span[i].ended > 0 /\ Responded(i)
    /\ randomNumber[i] # 1 /\ thrown[i] = "metric"
    /\ outcome[i].resp.statusCode = 500
    /\ span[i].httpStatus = 500

\* C12: the number generated for an invocation lies in 1..9, and when no
\* telemetry call fails the handler responds, with status 500 and body
\* "netlify-ts hello error" exactly when the number is 1 and with status 200
\* and body "netlify-ts hello success" for every number in 2..9.
C12_ResponseFollowsNumber ==
  \A i \in Invocations :
    /\ pc[i] \notin {"idle", "startSpan", "try"} => randomNumber[i] \in 1..9
    /\ Done(i) => Responded(i)
    /\ Responded(i) =>
         LET resp == outcome[i].resp
         IN IF randomNumber[i] = 1
            THEN resp.statusCode = 500 /\ resp.body = "netlify-ts hello error"
            ELSE /\ randomNumber[i] \in 2..9
                 /\ resp.statusCode = 200
                 /\ resp.body = "netlify-ts hello success"

\* C12 witness: one invocation drew 1 and answered 500, another drew 9 and
\* answered 200
C12_Witness ==
  \E i, j \in Invocations :
    /\ Responded(i) /\ randomNumber[i] = 1
    /\ outcome[i].resp.statusCode = 500
    /\ Responded(j) /\ randomNumber[j] = 9
    /\ outcome[j].resp.statusCode = 200

\* C13: in the revisions that report it, the function.cold_start attribute
\* of the function.start event is true for the first invocation served
\* after the module is loaded and false for every later invocation of the
\* process.
C13_ColdStartDetected ==
  ReportsColdStart(rev) =>
    \A i \in Invocations :
      (\E n \in DOMAIN span[i].events : span[i].events[n] = "function.start")
        => (span[i].coldStart <=> i = 1)

\* Records of the pipeline, by sequence number
Records == 1..MaxSubmits
Accepted(r) == r \in DOMAIN submits /\ submits[r] = "Ok"
Holds(b, r) == \E k \in DOMAIN b.records : b.records[k] = r
BatchesWith(bs, r) == {n \in DOMAIN bs : Holds(bs[n], r)}
Exported(r) == BatchesWith(exported, r) # {}
Dropped(r) == BatchesWith(droppedBatches, r) # {}
LastOutcome(b) == b.outcomes[Len(b.outcomes)]

C15_ExportedOnceOrDropped ==
  /\ \A r \in Records :
       Accepted(r) ~> (Cardinality(BatchesWith(exported, r)) = 1 \/ Dropped(r))
  /\ [](\A r \in Records :
         /\ Cardinality(BatchesWith(exported, r)) <= 1
         /\ ~(Exported(r) /\ Dropped(r)))
  /\ [](\A n \in DOMAIN droppedBatches :
         \/ LastOutcome(droppedBatches[n]) = "permanent"
         \/ Len(droppedBatches[n].outcomes) = MaxAttempts)

\* C15 witness: every submit call was made, all accepted Records are
\* exported, one of them after a transient failure of its Batch
C15_Witness ==
  /\ Len(submits) = MaxSubmits
  /\ \A r \in Records : Accepted(r) => Exported(r)
  /\ \E n \in DOMAIN exported : Len(exported[n].outcomes) > 1

\* Number of times Record r occurs in the sequence of Records q
Occurrences(q, r) == Cardinality({k \in DOMAIN q : q[k] = r})

RECURSIVE OccurrencesIn(_, _)
OccurrencesIn(bs, r) ==
  IF bs = <<>> THEN 0
  ELSE Occurrences(Head(bs).records, r) + OccurrencesIn(Tail(bs), r)

\* C16: every accepted Record is in exactly one of the Queue, the in-flight
\* Batch, an exported Batch and a dropped Batch, and occurs there once; a
\* rejected Record is in none.
C16_RecordInExactlyOnePlace ==
  \A r \in Records :
    Occurrences(queue, r) + Occurrences(batch.records, r)
      + OccurrencesIn(exported, r) + OccurrencesIn(droppedBatches, r)
    = IF Accepted(r) THEN 1 ELSE 0

\* C16 witness: at one moment a Record is queued, one is in flight, one is
\* exported and one is dropped
C16_Witness ==
  /\ queue # <<>> /\ batch # NoBatch
  /\ exported # <<>> /\ droppedBatches # <<>>

\* No flush has been triggered yet
NoFlushYet == batch = NoBatch /\ exported = <<>> /\ droppedBatches = <<>>

\* C17: as long as no flush intervenes, the first QueueCapacity submit
\* calls are accepted and every later one returns QueueFull; the queue
\* then holds exactly QueueCapacity Records.
C17_QueueFullBeyondCapacity ==
  NoFlushYet =>
    /\ \A r \in DOMAIN submits :
         submits[r] = IF r <= QueueCapacity THEN "Ok" ELSE "QueueFull"
    /\ Cardinality({r \in Records : Accepted(r)})
         = Min(Len(submits), QueueCapacity)
    /\ Len(queue) = Min(Len(submits), QueueCapacity)

\* C17 witness: one Record more than the capacity was submitted before any
\* flush, and it was rejected
C17_Witness ==
  /\ NoFlushYet
  /\ Len(submits) = QueueCapacity + 1
  /\ submits[QueueCapacity + 1] = "QueueFull"
  /\ Len(queue) = QueueCapacity

\* C18: when N Records, BatchMaxSize < N <= 2 * BatchMaxSize, were all
\* accepted, the first flush was triggered by size, all N had been
\* submitted when the second flush started, and nothing was dropped, then
\* exactly two Batches were exported, of sizes BatchMaxSize and
\* N - BatchMaxSize, holding the Records 1..N in submission order (600
\* Records with batchMaxSize 512: 512 and 88).
C18_TwoBatchesInOrder ==
  LET N == Len(submits)
  IN (/\ queue = <<>> /\ batch = NoBatch /\ droppedBatches = <<>>
      /\ N > BatchMaxSize /\ N <= 2 * BatchMaxSize
      /\ \A r \in 1..N : Accepted(r)
      /\ exported # <<>> /\ exported[1].trigger = "size"
      /\ \A n \in 2..Len(exported) : exported[n].at = N)
     => /\ Len(exported) = 2
        /\ Len(exported[1].records) = BatchMaxSize
        /\ Len(exported[2].records) = N - BatchMaxSize
        /\ exported[1].records \o exported[2].records = [k \in 1..N |-> k]

\* C18 witness: BatchMaxSize + 1 Records were exported as a full Batch
\* followed by a Batch of one
C18_Witness ==
  /\ queue = <<>> /\ batch = NoBatch /\ droppedBatches = <<>>
  /\ Len(submits) = BatchMaxSize + 1
  /\ Len(exported) = 2
  /\ exported[1].trigger = "size"
  /\ exported[2].at = Len(submits)
  /\ Len(exported[2].records) = 1

\* C19: a Batch whose export failed transiently twice and then succeeded
\* is exported exactly once and is not dropped, after exactly two backoff
\* delays: the base delay, then the base delay times the multiplier.
C19_TwoBackoffsThenExported ==
  \A n \in DOMAIN exported :
    exported[n].outcomes = <<"transient", "transient", "success">> =>
      /\ exported[n].delays = <<BaseDelay, BaseDelay * Multiplier>>
      /\ \A k \in DOMAIN exported[n].records :
           LET r == exported[n].records[k]
           IN /\ BatchesWith(exported, r) = {n}
              /\ ~Dropped(r)

\* C19 witness: such a Batch has been exported
C19_Witness ==
  \E n \in DOMAIN exported :
    /\ exported[n].outcomes = <<"transient", "transient", "success">>
    /\ Len(exported[n].delays) = 2

RECURSIVE RecordsIn(_)
RecordsIn(bs) ==
  IF bs = <<>> THEN 0 ELSE Len(Head(bs).records) + RecordsIn(Tail(bs))

\* C20: a permanent failure ends the export of a Batch: no attempt follows
\* it, the Batch is dropped and never exported, after a single attempt and
\* no backoff when the first answer was the permanent failure; the dropped
\* counter equals the number of Records in the dropped Batches.
C20_PermanentFailureDrops ==
  /\ \A k \in DOMAIN batch.outcomes : batch.outcomes[k] # "permanent"
  /\ \A n \in DOMAIN exported :
       \A k \in DOMAIN exported[n].outcomes :
         exported[n].outcomes[k] # "permanent"
  /\ \A n \in DOMAIN droppedBatches :
       LET b == droppedBatches[n]
       IN /\ \A k \in 1..(Len(b.outcomes) - 1) : b.outcomes[k] # "permanent"
          /\ b.outcomes[1] = "permanent" =>
               b.outcomes = <<"permanent">> /\ b.delays = <<>>
  /\ droppedCount = RecordsIn(droppedBatches)

\* C20 witness: a Batch of BatchMaxSize Records was dropped at its first
\* attempt and the counter shows its size
C20_Witness ==
  /\ Len(droppedBatches) = 1
  /\ droppedBatches[1].outcomes = <<"permanent">>
  /\ Len(droppedBatches[1].records) = BatchMaxSize
  /\ droppedCount = BatchMaxSize

\* The log entries written by invocation i, in order
LogsOf(i) ==
  LET IsBy(l) == l.by = i IN SelectSeq(logs, IsBy)

\* C21: in the revisions that log, an invocation writes "Function execution
\* started" before any outcome entry, and an invocation that returned a
\* response has written exactly one outcome entry after it: an info entry
\* with statusCode 200 for a 200 response, an error entry with statusCode
\* 500 for a 500 response.
C21_LifecycleLoggedInOrder ==
  \A i \in Invocations :
    ~UsesExecuteWithSpan(rev) =>
      LET entries == LogsOf(i)
      IN /\ entries # <<>> =>
              entries[1].entry.message = "Function execution started"
         /\ Responded(i) =>
              /\ Len(entries) = 2
              /\ entries[2].entry.statusCode = outcome[i].resp.statusCode
              /\ entries[2].entry.level =
                   IF outcome[i].resp.statusCode = 200 THEN "info" ELSE "error"

\* The points that the n-th direct call put on an instrument
PointsBy(points, n) == {k \in DOMAIN points : points[k].by = n}

\* C22: a call of recordRequest adds a function.errors point exactly when
\* statusCode >= 400, with error.type "server_error" for statusCode >= 500
\* and "client_error" for 400..499 whatever error.type the caller passed,
\* and it records both duration histograms exactly when a duration is
\* supplied; both counters are incremented once.
C22_RecordRequestClassifies ==
  \A n \in DOMAIN calls :
    LET c == calls[n]
        errs == PointsBy(metrics.errors, n)
    IN /\ Cardinality(errs) = IF c.statusCode >= 400 THEN 1 ELSE 0
       /\ \A k \in errs :
            metrics.errors[k].attrs.error_type =
              IF c.statusCode >= 500 THEN "server_error" ELSE "client_error"
       /\ Cardinality(PointsBy(metrics.durations, n))
            = IF c.hasDuration THEN 1 ELSE 0
       /\ Cardinality(PointsBy(metrics.executionTimes, n))
            = IF c.hasDuration THEN 1 ELSE 0
       /\ Cardinality(PointsBy(metrics.requests, n)) = 1
       /\ Cardinality(PointsBy(metrics.invocations, n)) = 1

\* C22 witness: a 404 call that passed its own error.type and no duration,
\* and a 500 call with a duration, have both been recorded
C22_Witness ==
  \E m, n \in DOMAIN calls :
    /\ calls[m].statusCode = 404 /\ ~calls[m].hasDuration
    /\ "error_type" \in DOMAIN calls[m].attributes
    /\ calls[n].statusCode = 500 /\ calls[n].hasDuration
    /\ Len(metrics.errors) = 2

\* C23: no call of initializeOtel throws: whatever fails while the SDK is
\* built or started, the call returns (null then), so once the handler
\* module's top-level code has called it the module is loaded.
C23_InitializeOtelNeverThrows ==
  /\ \A n \in DOMAIN initReturns : initReturns[n] # Thrown
  /\ initReturns # <<>> => loaded /\ otelInitialized

\* C23 witness: one call failed in the constructor and one in start(), and
\* both returned null to a loaded module
C23_Witness ==
  /\ loaded
  /\ Len(initReturns) = 2
  /\ initReturns[1] = Null /\ initReturns[2] = Null
  /\ constructed = 1 /\ started = {}

\* C24: a call of initializeOtel returns a non-null SDK only if that SDK's
\* start() completed, and the module variable sdk is null unless it holds
\* a started SDK.
C24_OnlyStartedSdkReturned ==
  /\ \A n \in DOMAIN initReturns :
       Truthy(initReturns[n]) => initReturns[n] \in started
  /\ Truthy(sdk) => sdk \in started

ShutdownEnds == {"resolved", "rejected", "noSdk", "meterRejected"}

\* C26: in the revisions that register shutdownOtel on signals, a process
\* that has exited did so with code 0 from a shutdownOtel run, and when an
\* SDK had been initialized that run's sdk.shutdown() had settled, resolved
\* or rejected, before the exit.
C26_ExitsAfterShutdownSettled ==
  (ExitsOnShutdown(otelRev) /\ exited) =>
    /\ exitCode = 0
    /\ \E k \in 1..MaxSignals : shutPc[k] \in ShutdownEnds
    /\ Truthy(sdk) =>
         \E k \in 1..MaxSignals : shutPc[k] \in {"resolved", "rejected"}

\* C27: in the revision that owns a MeterProvider, a process that has exited
\* has attempted both shutdowns: meterProvider.shutdown() was called when a
\* meter provider had been created, and sdk.shutdown() was called when an SDK
\* had been initialized, also after meterProvider.shutdown() rejected.
C27_BothShutdownsAttempted ==
  (OwnsMeterProvider(otelRev) /\ exited) =>
    /\ MeterProviderSet => meterShutdownCalls >= 1
    /\ Truthy(sdk) => sdkShutdownCalls >= 1

\* C28: when an invocation has answered and its span is ended, the span
\* carries exactly one recorded exception if the invocation failed (status
\* 500) and none if it succeeded (status 200).
C28_OneExceptionPerFailure ==
  \A i \in Invocations :
    span[i].ended > 0 /\ Responded(i) =>
      span[i].exceptions = IF outcome[i].resp.statusCode = 500 THEN 1 ELSE 0

\* C29: in the revisions that set error.type, the span of an invocation that
\* failed because the generated number is 1 is ended with error.type
\* "random_error", and a span ended with "unhandled_error" belongs to an
\* invocation whose exception was not the deliberate random error.
C29_RandomErrorTypeKept ==
  SetsErrorType(rev) =>
    \A i \in Invocations :
      span[i].ended > 0 =>
        /\ randomNumber[i] = 1 => span[i].errorType = "random_error"
        /\ span[i].errorType = "unhandled_error" => randomNumber[i] # 1

\* C30: a span is ended at most once and nothing is done to it afterwards:
\* no setStatus, setAttributes, addEvent or recordException call reaches a
\* span that has been ended, in any revision and on any path, also when
\* telemetry calls fail.
C30_NoSpanChangeAfterEnd ==
  \A i \in Invocations :
    /\ span[i].lateOps = 0
    /\ span[i].ended <= 1
    /\ span[i].ended > 0 => span[i].started

\* C30 witness: the revision whose finally block still writes to the span
\* has ended the span of a failed invocation, the function.end event being
\* the last thing put on it
C30_Witness ==
  \E i \in Invocations :
    /\ ReportsInFinally(rev)
    /\ span[i].ended = 1 /\ span[i].exceptions > 0
    /\ span[i].events # <<>>
    /\ span[i].events[Len(span[i].events)] = "function.end"

====
